---- MODULE Spec2Model ----

(***************************************************************************)
(* Model of totally_reset_cursor.py: the path safety gate                   *)
(* (is_safe_to_delete), the guarded remover (remove_path), the file         *)
(* creation routines and the reset_cursor run over the per-OS path tables.  *)
(*                                                                          *)
(* A path is the sequence of its components (pathlib's parts without the    *)
(* root), a string is the sequence of its characters, and the filesystem    *)
(* is a function from the physical paths that exist to their nodes.         *)
(***************************************************************************)
EXTENDS Integers, Sequences, FiniteSets, TLC

VARIABLES
    system,     \* platform.system()
    pc,         \* position of the run (or of the single call being studied)
    idx,        \* index of the next candidate of the deletion tables
    fs,         \* the filesystem: physical path -> node
    pre,        \* the filesystem as it was before the last operation
    cand,       \* the candidate of the last is_safe_to_delete / remove_path call
    bases,      \* the allowed_bases of the last call
    outcome,    \* what the last call returned or reported
    log,        \* the candidates remove_path was called on, in call order
    created,    \* the files written by the creation phase
    trial,      \* the trial-info record handed to the file writer
    clock,      \* the time zone of the host and its wall clock
    choice      \* the answer to the confirmation prompt, stripped and lowered

vars == <<system, pc, idx, fs, pre, cand, bases, outcome, log, created, trial,
          clock, choice>>

(***************************************************************************)
(* Bounds of the model.                                                     *)
(***************************************************************************)
MaxCandLen == 5
MaxInstalled == 1
MaxCalls == 2
MaxStartDay == 364

(***************************************************************************)
(* Strings.  str(path) and str.startswith work on characters, so every      *)
(* component name is spelled out.                                           *)
(***************************************************************************)
Spell ==
   ("home" :> <<"h", "o", "m", "e">>) @@
   ("u" :> <<"u">>) @@
   ("etc" :> <<"e", "t", "c">>) @@
   ("passwd" :> <<"p", "a", "s", "s", "w", "d">>) @@
   ("data" :> <<"d", "a", "t", "a">>) @@
   (".." :> <<".", ".">>) @@
   ("AppData" :> <<"A", "p", "p", "D", "a", "t", "a">>) @@
   ("Roaming" :> <<"R", "o", "a", "m", "i", "n", "g">>) @@
   ("Local" :> <<"L", "o", "c", "a", "l">>) @@
   ("Temp" :> <<"T", "e", "m", "p">>) @@
   ("Cursor" :> <<"C", "u", "r", "s", "o", "r">>) @@
   ("cursor-electron" :> <<"c", "u", "r", "s", "o", "r", "-", "e", "l", "e", "c", "t", "r", "o", "n">>) @@
   ("CursorAI" :> <<"C", "u", "r", "s", "o", "r", "A", "I">>) @@
   ("cursor-updater" :> <<"c", "u", "r", "s", "o", "r", "-", "u", "p", "d", "a", "t", "e", "r">>) @@
   ("Code" :> <<"C", "o", "d", "e">>) @@
   ("User" :> <<"U", "s", "e", "r">>) @@
   ("workspaceStorage" :> <<"w", "o", "r", "k", "s", "p", "a", "c", "e", "S", "t", "o", "r", "a", "g", "e">>) @@
   ("globalStorage" :> <<"g", "l", "o", "b", "a", "l", "S", "t", "o", "r", "a", "g", "e">>) @@
   ("cursorai.cursor" :> <<"c", "u", "r", "s", "o", "r", "a", "i", ".", "c", "u", "r", "s", "o", "r">>) @@
   (".cursor_trial_data" :> <<".", "c", "u", "r", "s", "o", "r", "_", "t", "r", "i", "a", "l", "_", "d", "a", "t", "a">>) @@
   (".cursor_license" :> <<".", "c", "u", "r", "s", "o", "r", "_", "l", "i", "c", "e", "n", "s", "e">>) @@
   (".cursor-machine-id" :> <<".", "c", "u", "r", "s", "o", "r", "-", "m", "a", "c", "h", "i", "n", "e", "-", "i", "d">>) @@
   ("state.vscdb" :> <<"s", "t", "a", "t", "e", ".", "v", "s", "c", "d", "b">>) @@
   ("sync" :> <<"s", "y", "n", "c">>) @@
   ("storage.json" :> <<"s", "t", "o", "r", "a", "g", "e", ".", "j", "s", "o", "n">>) @@
   ("logs" :> <<"l", "o", "g", "s">>) @@
   ("machineid" :> <<"m", "a", "c", "h", "i", "n", "e", "i", "d">>) @@
   ("trial_info.json" :> <<"t", "r", "i", "a", "l", "_", "i", "n", "f", "o", ".", "j", "s", "o", "n">>) @@
   ("Library" :> <<"L", "i", "b", "r", "a", "r", "y">>) @@
   ("Application Support" :> <<"A", "p", "p", "l", "i", "c", "a", "t", "i", "o", "n", " ", "S", "u", "p", "p", "o", "r", "t">>) @@
   ("Caches" :> <<"C", "a", "c", "h", "e", "s">>) @@
   ("Preferences" :> <<"P", "r", "e", "f", "e", "r", "e", "n", "c", "e", "s">>) @@
   ("Saved Application State" :> <<"S", "a", "v", "e", "d", " ", "A", "p", "p", "l", "i", "c", "a", "t", "i", "o", "n", " ", "S", "t", "a", "t", "e">>) @@
   ("HTTPStorages" :> <<"H", "T", "T", "P", "S", "t", "o", "r", "a", "g", "e", "s">>) @@
   ("com.cursor.Cursor.plist" :> <<"c", "o", "m", ".", "c", "u", "r", "s", "o", "r", ".", "C", "u", "r", "s", "o", "r", ".", "p", "l", "i", "s", "t">>) @@
   ("com.cursor.Cursor.savedState" :> <<"c", "o", "m", ".", "c", "u", "r", "s", "o", "r", ".", "C", "u", "r", "s", "o", "r", ".", "s", "a", "v", "e", "d", "S", "t", "a", "t", "e">>) @@
   ("com.cursor.Cursor" :> <<"c", "o", "m", ".", "c", "u", "r", "s", "o", "r", ".", "C", "u", "r", "s", "o", "r">>) @@
   (".config" :> <<".", "c", "o", "n", "f", "i", "g">>) @@
   (".cache" :> <<".", "c", "a", "c", "h", "e">>) @@
   (".local" :> <<".", "l", "o", "c", "a", "l">>) @@
   ("share" :> <<"s", "h", "a", "r", "e">>) @@
   (".config-old" :> <<".", "c", "o", "n", "f", "i", "g", "-", "o", "l", "d">>) @@
   ("Documents" :> <<"D", "o", "c", "u", "m", "e", "n", "t", "s">>)

RECURSIVE join(_, _)
join(parts, sep) ==
    IF parts = <<>> THEN <<>>
    ELSE IF Len(parts) = 1 THEN Spell[parts[1]]
    ELSE Spell[parts[1]] \o <<sep>> \o join(Tail(parts), sep)

\* os.sep of the path flavour platform.system() selects
sep(sys) == IF sys = "Windows" THEN "\\" ELSE "/"

\* str(PurePath): the empty relative path prints as "."
str(parts, sys) == IF parts = <<>> THEN <<".">> ELSE join(parts, sep(sys))

startswith(s, prefix) ==
    /\ Len(prefix) <= Len(s)
    /\ SubSeq(s, 1, Len(prefix)) = prefix

(***************************************************************************)
(* Pure paths.                                                              *)
(***************************************************************************)
\* PurePath.is_relative_to: component-wise, no ".." is collapsed
is_relative_to(path, other) ==
    /\ Len(other) <= Len(path)
    /\ SubSeq(path, 1, Len(other)) = other

ValueError == <<"ValueError">>

\* PurePath.relative_to: raises ValueError when other is no prefix
relative_to(path, other) ==
    IF is_relative_to(path, other)
    THEN SubSeq(path, Len(other) + 1, Len(path))
    ELSE ValueError

\* PurePath.parent: Path('.').parent is Path('.'), so is Path('x').parent
parent(path) == IF path = <<>> THEN <<>> ELSE SubSeq(path, 1, Len(path) - 1)

\* Path.home()
home_dir == <<"home", "u">>

\* Path('.')
Dot == <<>>

EXPECTED_BASES ==
    [Windows |-> << join(<<"AppData", "Roaming">>, "\\"),
                    join(<<"AppData", "Local">>, "\\") >>,
     Darwin  |-> << join(<<"Library", "Application Support">>, "/"),
                    join(<<"Library", "Caches">>, "/"),
                    join(<<"Library", "Preferences">>, "/"),
                    join(<<"Library", "Saved Application State">>, "/"),
                    join(<<"Library", "HTTPStorages">>, "/") >>,
     Linux   |-> << Spell[".config"], Spell[".cache"],
                    join(<<".local", "share">>, "/") >>]

(***************************************************************************)
(* The path safety gate.                                                    *)
(***************************************************************************)
\* A gate that matches whole components instead of characters.
any_base_by_component(relative_path, allowed_bases, sys) ==
    \E i \in DOMAIN allowed_bases :
        \E n \in 0..Len(relative_path) :
            str(SubSeq(relative_path, 1, n), sys) = allowed_bases[i]

\* line 44: any(str(relative_path).startswith(base) for base in allowed_bases)
any_base(relative_path, allowed_bases, sys) ==
    \E i \in DOMAIN allowed_bases :
        startswith(str(relative_path, sys), allowed_bases[i])

is_safe_to_delete(path_to_delete, home, allowed_bases, sys) ==
    IF ~is_relative_to(path_to_delete, home) THEN FALSE
    ELSE LET relative_path == relative_to(path_to_delete, home) IN
         IF relative_path = ValueError THEN FALSE
         ELSE IF /\ ~any_base(relative_path, allowed_bases, sys)
                 /\ parent(relative_path) # Dot
              THEN FALSE
              ELSE TRUE

(***************************************************************************)
(* The per-OS path tables.                                                  *)
(***************************************************************************)
None == [config_dirs |-> <<>>, cache_dirs |-> <<>>, state_files |-> <<>>,
         machine_id_files |-> <<>>, trial_file |-> <<>>, allowed_bases |-> <<>>,
         supported |-> FALSE]

get_os_paths(home, sys) ==
    IF sys = "Windows" THEN
        LET app_data == home \o <<"AppData">>
            local_app_data == app_data \o <<"Local">>
            roaming_app_data == app_data \o <<"Roaming">>
            temp_dir == local_app_data \o <<"Temp">>
        IN [config_dirs |-> << roaming_app_data \o <<"Cursor">>,
                               roaming_app_data \o <<"cursor-electron">>,
                               roaming_app_data \o <<"CursorAI">> >>,
            cache_dirs |-> << local_app_data \o <<"Cursor">>,
                              local_app_data \o <<"cursor-electron">>,
                              local_app_data \o <<"CursorAI">>,
                              temp_dir \o <<"Cursor">>,
                              temp_dir \o <<"cursor-updater">>,
                              roaming_app_data \o <<"Code", "User", "workspaceStorage">>,
                              roaming_app_data \o <<"Code", "User", "globalStorage", "cursorai.cursor">> >>,
            state_files |-> << home \o <<".cursor_trial_data">>,
                               home \o <<".cursor_license">>,
                               home \o <<".cursor-machine-id">>,
                               roaming_app_data \o <<"Cursor", "User", "state.vscdb">>,
                               roaming_app_data \o <<"Cursor", "User", "sync">>,
                               roaming_app_data \o <<"Cursor", "storage.json">>,
                               roaming_app_data \o <<"Cursor", "logs">> >>,
            machine_id_files |-> << roaming_app_data \o <<"Cursor", "machineid">> >>,
            trial_file |-> roaming_app_data \o <<"Cursor", "trial_info.json">>,
            allowed_bases |-> EXPECTED_BASES["Windows"],
            supported |-> TRUE]
    ELSE IF sys = "Darwin" THEN
        LET library == home \o <<"Library">>
            app_support == library \o <<"Application Support">>
            caches == library \o <<"Caches">>
            prefs == library \o <<"Preferences">>
            saved_state == library \o <<"Saved Application State">>
            http_storage == library \o <<"HTTPStorages">>
        IN [config_dirs |-> << app_support \o <<"Cursor">>,
                               app_support \o <<"cursor-electron">> >>,
            cache_dirs |-> << caches \o <<"Cursor">>,
                              caches \o <<"cursor-electron">>,
                              app_support \o <<"Code", "User", "workspaceStorage">>,
                              app_support \o <<"Code", "User", "globalStorage", "cursorai.cursor">> >>,
            state_files |-> << prefs \o <<"com.cursor.Cursor.plist">>,
                               saved_state \o <<"com.cursor.Cursor.savedState">>,
                               http_storage \o <<"com.cursor.Cursor">>,
                               home \o <<".cursor_trial_data">>,
                               home \o <<".cursor_license">>,
                               home \o <<".cursor-machine-id">>,
                               app_support \o <<"Cursor", "User", "state.vscdb">>,
                               app_support \o <<"Cursor", "User", "sync">>,
                               app_support \o <<"Cursor", "storage.json">>,
                               app_support \o <<"Cursor", "logs">> >>,
            machine_id_files |-> << app_support \o <<"Cursor", "machineid">> >>,
            trial_file |-> app_support \o <<"Cursor", "trial_info.json">>,
            allowed_bases |-> EXPECTED_BASES["Darwin"],
            supported |-> TRUE]
    ELSE IF sys = "Linux" THEN
        LET config_dir == home \o <<".config">>
            cache_dir == home \o <<".cache">>
            local_share == home \o <<".local", "share">>
        IN [config_dirs |-> << config_dir \o <<"Cursor">>,
                               config_dir \o <<"cursor-electron">> >>,
            cache_dirs |-> << cache_dir \o <<"Cursor">>,
                              cache_dir \o <<"cursor-electron">>,
                              config_dir \o <<"Code", "User", "workspaceStorage">>,
                              config_dir \o <<"Code", "User", "globalStorage", "cursorai.cursor">> >>,
            state_files |-> << local_share \o <<"Cursor">>,
                               local_share \o <<"cursor-electron">>,
                               home \o <<".cursor_trial_data">>,
                               home \o <<".cursor_license">>,
                               home \o <<".cursor-machine-id">>,
                               config_dir \o <<"Cursor", "User", "state.vscdb">>,
                               config_dir \o <<"Cursor", "User", "sync">>,
                               config_dir \o <<"Cursor", "storage.json">>,
                               config_dir \o <<"Cursor", "logs">> >>,
            machine_id_files |-> << config_dir \o <<"Cursor", "machineid">> >>,
            trial_file |-> config_dir \o <<"Cursor", "trial_info.json">>,
            allowed_bases |-> EXPECTED_BASES["Linux"],
            supported |-> TRUE]
    ELSE None

\* The three loops of the deletion phase, lines 300-309, in order.
deletion_table(os_paths) ==
    os_paths.config_dirs \o os_paths.cache_dirs \o os_paths.state_files

(***************************************************************************)
(* The filesystem.  A node is a regular file, a directory (writable, or     *)
(* read-only: its entries cannot be removed, or locked: it can be neither   *)
(* searched nor listed), or a symbolic link to an absolute path.            *)
(***************************************************************************)
File == [kind |-> "file", target |-> <<>>]
Dir == [kind |-> "dir", target |-> <<>>]
RoDir == [kind |-> "rodir", target |-> <<>>]
Locked == [kind |-> "locked", target |-> <<>>]
Link(t) == [kind |-> "link", target |-> t]
Absent == [kind |-> "none", target |-> <<>>]

DirKinds == {"dir", "rodir", "locked"}

node(f, p) == IF p = <<>> THEN Dir ELSE IF p \in DOMAIN f THEN f[p] ELSE Absent

\* The filesystem without the entries of gone.
without(f, gone) == [q \in DOMAIN f \ gone |-> f[q]]

\* Path resolution by the kernel: ".." is the physical parent, a symbolic
\* link is followed (the last component only with follow).
RECURSIVE walk(_, _, _, _)
walk(f, cur, rest, follow) ==
    IF rest = <<>> THEN [err |-> "ok", at |-> cur]
    ELSE LET here == node(f, cur) IN
         IF here.kind = "none" THEN [err |-> "ENOENT", at |-> cur]
         ELSE IF here.kind \notin DirKinds THEN [err |-> "ENOTDIR", at |-> cur]
         ELSE IF here.kind = "locked" THEN [err |-> "EACCES", at |-> cur]
         ELSE IF Head(rest) = ".." THEN walk(f, parent(cur), Tail(rest), follow)
         ELSE LET nxt == Append(cur, Head(rest))
                  n == node(f, nxt)
              IN IF n.kind = "link" /\ (Len(rest) > 1 \/ follow)
                 THEN walk(f, <<>>, n.target \o Tail(rest), follow)
                 ELSE walk(f, nxt, Tail(rest), follow)

\* os.stat (follow) and os.lstat (not follow)
stat_of(f, w) ==
    IF w.err # "ok" THEN [err |-> w.err, at |-> w.at, node |-> Absent]
    ELSE IF node(f, w.at).kind = "none"
    THEN [err |-> "ENOENT", at |-> w.at, node |-> Absent]
    ELSE [err |-> "ok", at |-> w.at, node |-> node(f, w.at)]

os_stat(f, p, follow) == stat_of(f, walk(f, <<>>, p, follow))

\* Path.exists(): False when the path is missing; any other OS error of the
\* stat call is raised by pathlib before 3.14 and answered False from 3.14 on.
exists_of(err) ==
    IF err = "ok" THEN {"True"}
    ELSE IF err = "EACCES" THEN {"PermissionError", "False"}
    ELSE {"False"}

exists(f, p) == exists_of(os_stat(f, p, TRUE).err)

is_file(f, p) == os_stat(f, p, TRUE).node.kind = "file"
is_symlink(f, p) == os_stat(f, p, FALSE).node.kind = "link"
is_dir(f, p) == os_stat(f, p, TRUE).node.kind \in DirKinds

\* The exception class Python raises for an errno.
exception_of(err) ==
    IF err = "ENOENT" THEN "FileNotFoundError"
    ELSE IF err = "EACCES" THEN "PermissionError"
    ELSE "OSError"

\* Path.unlink(): removes the directory entry itself, never its target.
unlink_at(f, st) ==
    IF st.err # "ok" THEN [fs |-> f, exc |-> exception_of(st.err)]
    ELSE IF node(f, parent(st.at)).kind = "rodir" THEN [fs |-> f, exc |-> "PermissionError"]
    ELSE IF st.node.kind \in DirKinds THEN [fs |-> f, exc |-> "OSError"]
    ELSE [fs |-> without(f, {st.at}), exc |-> "none"]

unlink(f, p) == unlink_at(f, os_stat(f, p, FALSE))

\* The entries beneath directory d.
subtree(f, d) == {q \in DOMAIN f : is_relative_to(q, d) /\ q # d}

\* The directories of the tree of d that cannot be emptied: a locked one
\* cannot be listed, a read-only one cannot lose its entries.
unlistable(f, d, sub) ==
    {q \in sub \cup {d} :
        \/ node(f, q).kind = "locked"
        \/ node(f, q).kind = "rodir" /\ \E c \in sub : parent(c) = q}

\* The entries that cannot be removed because of those: the directories
\* themselves, what they hold, and every directory above them.
stuck(f, sub, bad) ==
    {q \in sub : \E b \in bad :
        \/ is_relative_to(b, q)
        \/ parent(q) = b
        \/ node(f, b).kind = "locked" /\ is_relative_to(q, b)}

\* R holds whatever lies beneath its directories.
closed(R, sub) == \A q \in R : \A c \in sub : is_relative_to(c, q) => c \in R

\* shutil.rmtree(path, ignore_errors=False): the tree is removed bottom-up in
\* directory-listing order and the first error is raised, whatever has been
\* removed by then staying removed; os.rmdir(path) comes last.  The set of
\* the possible results.
rmtree_tree(f, p, st, sub, bad) ==
    IF bad # {}
    THEN { [fs |-> without(f, R), exc |-> "PermissionError"] :
             R \in {R \in SUBSET (sub \ stuck(f, sub, bad)) : closed(R, sub)} }
    ELSE IF p # <<>> /\ p[Len(p)] = ".."
    THEN { [fs |-> without(f, sub), exc |-> "FileNotFoundError"] }
    ELSE IF node(f, parent(st.at)).kind = "rodir"
    THEN { [fs |-> without(f, sub), exc |-> "PermissionError"] }
    ELSE { [fs |-> without(f, sub \cup {st.at}), exc |-> "none"] }

rmtree_at(f, p, st, sub) == rmtree_tree(f, p, st, sub, unlistable(f, st.at, sub))

rmtree_stat(f, p, st) ==
    IF st.err # "ok" THEN { [fs |-> f, exc |-> exception_of(st.err)] }
    ELSE rmtree_at(f, p, st, subtree(f, st.at))

\* shutil.rmtree(path, ignore_errors=True): no error is raised.
rmtree_ignore_errors(f, p) ==
    { [fs |-> r.fs, exc |-> "none"] : r \in rmtree_stat(f, p, os_stat(f, p, TRUE)) }

rmtree(f, p) == rmtree_stat(f, p, os_stat(f, p, TRUE))

(***************************************************************************)
(* The guarded remover.  A call yields the filesystem it leaves and what it *)
(* reported: "absent" and "unsafe" are the two silent returns, "raised" is  *)
(* an exception leaving remove_path, the others are the messages printed.   *)
(***************************************************************************)
\* lines 71, 74 and the except clauses of lines 78-86
report(exc, done) ==
    IF exc = "none" THEN done
    ELSE IF exc = "FileNotFoundError" THEN "already_gone"
    ELSE IF exc = "PermissionError" THEN "permission_denied"
    ELSE IF exc = "OSError" THEN "os_error"
    ELSE "unexpected_error"

\* lines 68-86: the type dispatch and the deletion
delete(f, path_to_delete) ==
    IF is_file(f, path_to_delete) \/ is_symlink(f, path_to_delete)
    THEN { [fs |-> r.fs, outcome |-> report(r.exc, "deleted_file")] :
             r \in {unlink(f, path_to_delete)} }
    ELSE IF is_dir(f, path_to_delete)
    THEN { [fs |-> r.fs, outcome |-> report(r.exc, "deleted_directory")] :
             r \in rmtree(f, path_to_delete) }
    ELSE { [fs |-> f, outcome |-> "skipped_other"] }

\* A remover that warns about an unsafe path and deletes it all the same.
remove_path_without_return(f, path_to_delete, home, allowed_bases, sys) ==
    UNION { IF e = "PermissionError" THEN { [fs |-> f, outcome |-> "raised"] }
            ELSE IF e = "False" THEN { [fs |-> f, outcome |-> "absent"] }
            ELSE IF ~is_safe_to_delete(path_to_delete, home, allowed_bases, sys)
            THEN { [fs |-> r.fs, outcome |-> "unsafe"] : r \in delete(f, path_to_delete) }
            ELSE delete(f, path_to_delete)
          : e \in exists(f, path_to_delete) }

remove_path(f, path_to_delete, home, allowed_bases, sys) ==
    UNION { IF e = "PermissionError" THEN { [fs |-> f, outcome |-> "raised"] }
            ELSE IF e = "False" THEN { [fs |-> f, outcome |-> "absent"] }
            ELSE IF ~is_safe_to_delete(path_to_delete, home, allowed_bases, sys)
            THEN { [fs |-> f, outcome |-> "unsafe"] }
            ELSE delete(f, path_to_delete)
          : e \in exists(f, path_to_delete) }

(***************************************************************************)
(* The file writers.                                                        *)
(***************************************************************************)
\* os.mkdir of the entry called name in the directory pst
mkdir_in(f, pst, name) ==
    IF pst.node.kind \in {"rodir", "locked"} THEN [fs |-> f, exc |-> "PermissionError"]
    ELSE IF node(f, Append(pst.at, name)).kind # "none" THEN [fs |-> f, exc |-> "OSError"]
    ELSE [fs |-> (Append(pst.at, name) :> Dir) @@ f, exc |-> "none"]

mkdir_under(up, d) ==
    IF up.exc # "none" THEN up
    ELSE mkdir_in(up.fs, os_stat(up.fs, parent(d), TRUE), d[Len(d)])

\* Path.mkdir(parents=True, exist_ok=True)
RECURSIVE mkdir(_, _)
mkdir_stat(f, d, st) ==
    IF st.err = "ok"
    THEN [fs |-> f, exc |-> IF st.node.kind \in DirKinds THEN "none" ELSE "OSError"]
    ELSE IF st.err # "ENOENT" THEN [fs |-> f, exc |-> exception_of(st.err)]
    ELSE IF d = <<>> THEN [fs |-> f, exc |-> "OSError"]
    ELSE mkdir_under(mkdir(f, parent(d)), d)

mkdir(f, d) == mkdir_stat(f, d, os_stat(f, d, TRUE))

\* open(path, 'w') of the physical entry at under the directory node dir
open_w(f, at, dir, n) ==
    IF dir.kind = "locked" THEN [fs |-> f, exc |-> "PermissionError"]
    ELSE IF dir.kind = "none" THEN [fs |-> f, exc |-> "FileNotFoundError"]
    ELSE IF dir.kind \notin DirKinds THEN [fs |-> f, exc |-> "OSError"]
    ELSE IF n.kind = "file" THEN [fs |-> f, exc |-> "none"]
    ELSE IF n.kind # "none" THEN [fs |-> f, exc |-> "OSError"]
    ELSE IF dir.kind = "rodir" THEN [fs |-> f, exc |-> "PermissionError"]
    ELSE [fs |-> (at :> File) @@ f, exc |-> "none"]

\* a symbolic link in the last place is written through
open_entry(f, at) == open_w(f, at, node(f, parent(at)), node(f, at))

open_here(f, here, n) == open_entry(f, IF n.kind = "link" THEN n.target ELSE here)

write_text_in(f, pst, name) ==
    IF pst.err # "ok" THEN [fs |-> f, exc |-> exception_of(pst.err)]
    ELSE open_here(f, Append(pst.at, name), node(f, Append(pst.at, name)))

\* Path.write_text()
write_text(f, path) == write_text_in(f, os_stat(f, parent(path), TRUE), path[Len(path)])

\* lines 95-101: the success message, or the exception caught and reported
created_or(r) == [fs |-> r.fs, outcome |-> report(r.exc, "created")]

write_after(made, path) ==
    IF made.exc # "none" THEN created_or(made)
    ELSE created_or(write_text(made.fs, path))

\* lines 88-101
create_file_with_content(f, path) == write_after(mkdir(f, parent(path)), path)

create_new_machine_id(f, path) == create_file_with_content(f, path)

(***************************************************************************)
(* Time.  A naive datetime is a local calendar day (day 0 is 1 January of   *)
(* the model year), the millisecond of that day and the microsecond of that *)
(* millisecond; a timestamp is the same triple counted from the epoch       *)
(* 1 January 00:00 UTC.                                                     *)
(***************************************************************************)
MsPerHour == 60 * 60 * 1000
MsPerDay == 24 * MsPerHour
DaysPerYear == 7 * 52 + 1
\* daylight saving time of America/New_York: from the second Sunday of March
\* 02:00 to the first Sunday of November 02:00 (8 March and 1 November 2026)
DstStartDay == 31 + 28 + 7
DstEndDay == 31 + 28 + 31 + 30 + 31 + 30 + 31 + 31 + 30 + 31

Zones == {"UTC", "Asia/Kolkata", "America/New_York"}

isdst(dt) ==
    LET d == dt.day % DaysPerYear IN
    /\ d > DstStartDay \/ (d = DstStartDay /\ dt.ms >= 2 * MsPerHour)
    /\ d < DstEndDay \/ (d = DstEndDay /\ dt.ms < 2 * MsPerHour)

\* the UTC offset of the zone at a local time, in milliseconds
utcoffset(tz, dt) ==
    IF tz = "UTC" THEN 0
    ELSE IF tz = "Asia/Kolkata" THEN 5 * MsPerHour + MsPerHour \div 2
    ELSE IF isdst(dt) THEN -4 * MsPerHour
    ELSE -5 * MsPerHour

\* datetime + timedelta(days=n): wall-clock arithmetic on a naive datetime
plus_days(dt, n) == [dt EXCEPT !.day = @ + n]

\* naive datetime.timestamp(): the local time is taken to be in the host zone
timestamp(tz, dt) ==
    LET t == dt.ms - utcoffset(tz, dt) IN
    [day |-> dt.day + (t \div MsPerDay), ms |-> t % MsPerDay, us |-> dt.us]

\* int(seconds * 1000): whole milliseconds
int_ms(ts) == [day |-> ts.day, ms |-> ts.ms]

TrialDays == 90

NoTrial == [trialStartTimestamp |-> [day |-> 0, ms |-> 0],
            trialEndTimestamp |-> [day |-> 0, ms |-> 0],
            hasUsedTrial |-> TRUE, machineId |-> "", written |-> "none"]

\* uuid.uuid4()
Tokens == {"uuid-a", "uuid-b"}

\* lines 119-126: the record, and its file
trial_data(r, start_timestamp_ms, end_timestamp_ms, token) ==
    [fs |-> r.fs,
     outcome |-> r.outcome,
     data |-> [trialStartTimestamp |-> start_timestamp_ms,
               trialEndTimestamp |-> end_timestamp_ms,
               hasUsedTrial |-> FALSE,
               machineId |-> token,
               written |-> r.outcome]]

\* lines 108-129
create_new_trial_info(f, path, tz, now, token) ==
    trial_data(create_file_with_content(f, path),
               int_ms(timestamp(tz, now)),
               int_ms(timestamp(tz, plus_days(now, TrialDays))),
               token)

(***************************************************************************)
(* The confirmation prompt.                                                 *)
(***************************************************************************)
RECURSIVE lstrip(_)
lstrip(s) == IF s # <<>> /\ Head(s) = " " THEN lstrip(Tail(s)) ELSE s

RECURSIVE rstrip(_)
rstrip(s) ==
    IF s # <<>> /\ s[Len(s)] = " " THEN rstrip(SubSeq(s, 1, Len(s) - 1)) ELSE s

strip(s) == rstrip(lstrip(s))

lower(s) == [i \in DOMAIN s |-> IF s[i] = "Y" THEN "y"
                                ELSE IF s[i] = "N" THEN "n"
                                ELSE IF s[i] = "E" THEN "e"
                                ELSE IF s[i] = "S" THEN "s"
                                ELSE s[i]]

EOFError == <<"EOFError">>

\* what input() can return, or raise
Answers == { <<"y">>, <<"Y">>, <<" ", "y", " ">>, <<"n">>, <<"N">>, <<>>,
             <<"y", "e", "s">>, <<"y", " ", "y">>, EOFError }

(***************************************************************************)
(* The states the host can be in when the program starts.                   *)
(***************************************************************************)
Systems == {"Windows", "Darwin", "Linux", "FreeBSD"}

Range(t) == {t[i] : i \in DOMAIN t}

\* What lies outside the home directory, and a document inside it.
Skeleton ==
    (<<"home">> :> Dir) @@ (home_dir :> Dir) @@
    (<<"etc">> :> Dir) @@ (<<"etc", "passwd">> :> File) @@
    (<<"data">> :> Dir) @@ (<<"data", "logs">> :> File) @@
    (home_dir \o <<"Documents">> :> Dir) @@
    (home_dir \o <<"Documents", "passwd">> :> File)

\* What an installed candidate can be: a file, an empty directory, a
\* directory holding a file and a directory with a file in it, or a symbolic
\* link to a directory, to a file or to nothing.
Tree == [kind |-> "tree", target |-> <<>>]

LeafKinds == {File, Dir, Tree, Link(<<"data">>), Link(<<"etc", "passwd">>),
              Link(<<"data", "missing">>)}

\* The filesystem with the candidates of inst installed as k says, the
\* directories above them being directories.
Populate(inst, k) ==
    LET above == UNION { {SubSeq(q, 1, n) : n \in (Len(home_dir) + 1)..Len(q)} :
                         q \in inst }
        leaves == {p \in inst : ~\E q \in inst : q # p /\ is_relative_to(q, p)}
        held == UNION { {p \o <<"logs">>, p \o <<"User">>, p \o <<"User", "sync">>} :
                        p \in {q \in leaves : k[q] = Tree} }
    IN [p \in above \cup held |->
           IF p \in leaves THEN (IF k[p] = Tree THEN Dir ELSE k[p])
           ELSE IF p \in above THEN Dir
           ELSE IF p[Len(p)] = "User" THEN Dir
           ELSE File] @@ Skeleton

\* At most one directory below the home directory has lost permissions.
Restrictions(f) ==
    {f} \cup { [f EXCEPT ![d] = m] :
                 d \in {q \in DOMAIN f : /\ f[q].kind = "dir"
                                         /\ is_relative_to(q, home_dir)
                                         /\ q # home_dir},
                 m \in {RoDir, Locked} }

\* The sets of at most n elements of S.
RECURSIVE AtMost(_, _)
AtMost(S, n) ==
    IF n = 0 THEN {{}}
    ELSE LET smaller == AtMost(S, n - 1)
         IN smaller \cup {I \cup {x} : I \in smaller, x \in S}

\* f is a filesystem the host can hold when the program starts: at most
\* MaxInstalled candidates of the deletion tables are installed.
InitialFilesystem(f, sys) ==
    \E inst \in AtMost(Range(deletion_table(get_os_paths(home_dir, sys))), MaxInstalled) :
       \E k \in [inst -> LeafKinds] :
          f \in Restrictions(Populate(inst, k))

TimesOfDay == {0, 12 * MsPerHour + 345, MsPerDay - 1}

Clocks == [tz : Zones,
           now : [day : 0..MaxStartDay, ms : TimesOfDay, us : {0, 999}]]

\* The clock of the runs that are not about time.
RunClock == [tz |-> "UTC", now |-> [day |-> 0, ms |-> 0, us |-> 0]]

(***************************************************************************)
(* reset_cursor, lines 269-345.                                             *)
(***************************************************************************)
os_paths == get_os_paths(home_dir, system)

Init ==
    /\ system \in Systems
    /\ InitialFilesystem(fs, system)
    /\ clock = RunClock
    /\ pc = "start"
    /\ idx = 0
    /\ pre = fs
    /\ cand = <<>>
    /\ bases = <<>>
    /\ outcome = "none"
    /\ log = <<>>
    /\ created = {}
    /\ trial = NoTrial
    /\ choice = <<>>

\* lines 271-275: an unsupported OS ends the run
Start ==
    /\ pc = "start"
    /\ pc' = IF os_paths.supported THEN "confirm" ELSE "unsupported"
    /\ UNCHANGED <<system, idx, fs, pre, cand, bases, outcome, log, created,
                   trial, clock, choice>>

\* lines 286-293: only the answer 'y' lets the run go on
Confirm ==
    /\ pc = "confirm"
    /\ \E answer \in Answers :
          /\ choice' = IF answer = EOFError THEN EOFError ELSE lower(strip(answer))
          /\ pc' = IF answer # EOFError /\ choice' = <<"y">> THEN "delete" ELSE "cancelled"
    /\ idx' = 1
    /\ UNCHANGED <<system, fs, pre, cand, bases, outcome, log, created, trial, clock>>

\* The creation phase starts while a candidate is left.
next_after_remove_early(i, table) ==
    IF i >= Len(table) - 1 THEN "machine_id" ELSE "delete"

\* the for loops of lines 300-309 end when the tables are exhausted
next_after_remove(i, table) ==
    IF i = Len(table) THEN "machine_id" ELSE "delete"

\* lines 298-309: one remove_path call of the deletion phase
Remove ==
    /\ pc = "delete"
    /\ \E paths \in {os_paths} : \E table \in {deletion_table(paths)} :
       \E r \in remove_path(fs, table[idx], home_dir, paths.allowed_bases, system) :
          /\ fs' = r.fs
          /\ pre' = fs
          /\ cand' = table[idx]
          /\ bases' = paths.allowed_bases
          /\ outcome' = r.outcome
          /\ log' = Append(log, table[idx])
          /\ IF r.outcome = "raised"
             THEN pc' = "crashed" /\ idx' = idx
             ELSE pc' = next_after_remove(idx, table) /\ idx' = idx + 1
    /\ UNCHANGED <<system, created, trial, clock, choice>>

\* lines 323 and 332: path.parent.exists() or any(parent == path.parent ...)
parent_is_reasonable(f, path, config_dirs) ==
    { IF e = "PermissionError" THEN "raised"
      ELSE IF e = "True" THEN "yes"
      ELSE IF \E i \in DOMAIN config_dirs : config_dirs[i] = parent(path) THEN "yes"
      ELSE "no" : e \in exists(f, parent(path)) }

\* what a creation step leaves: the file written, skipped, or the run ended
creation(f, ok, r) ==
    IF ok = "yes" THEN [fs |-> r.fs, outcome |-> r.outcome]
    ELSE IF ok = "no" THEN [fs |-> f, outcome |-> "skipped"]
    ELSE [fs |-> f, outcome |-> "raised"]

\* lines 315-326: the machine-id file of the OS (each table holds one)
CreateMachineId ==
    /\ pc = "machine_id"
    /\ \E paths \in {os_paths} : \E path \in {paths.machine_id_files[1]} :
       \E ok \in parent_is_reasonable(fs, path, paths.config_dirs) :
       \E r \in {creation(fs, ok, create_new_machine_id(fs, path))} :
          /\ pc' = IF ok = "raised" THEN "crashed" ELSE "trial"
          /\ fs' = r.fs
          /\ outcome' = r.outcome
          /\ created' = IF r.outcome = "created" THEN created \cup {path} ELSE created
          /\ cand' = path
    /\ pre' = fs
    /\ UNCHANGED <<system, idx, bases, log, trial, clock, choice>>

\* lines 329-337: the trial-info file
CreateTrialInfo ==
    /\ pc = "trial"
    /\ \E paths \in {os_paths} : \E path \in {paths.trial_file} :
       \E ok \in parent_is_reasonable(fs, path, paths.config_dirs), token \in Tokens :
       \E t \in {create_new_trial_info(fs, path, clock.tz, clock.now, token)} :
       \E r \in {creation(fs, ok, t)} :
          /\ pc' = IF ok = "raised" THEN "crashed" ELSE "done"
          /\ fs' = r.fs
          /\ outcome' = r.outcome
          /\ trial' = IF ok = "yes" THEN t.data ELSE trial
          /\ created' = IF r.outcome = "created" THEN created \cup {path} ELSE created
          /\ cand' = path
    /\ pre' = fs
    /\ UNCHANGED <<system, idx, bases, log, clock, choice>>

Next == Start \/ Confirm \/ Remove \/ CreateMachineId \/ CreateTrialInfo

Spec == Init /\ [][Next]_vars

(***************************************************************************)
(* remove_path called on its own: on any candidate, then again on the same  *)
(* candidate.                                                               *)
(***************************************************************************)
\* The candidates of the calls: the table entries of the OS, the home
\* directory, paths that climb out of it, and paths the tables never name.
RemoveCandidates(paths) ==
    Range(deletion_table(paths)) \cup
    { home_dir,
      home_dir \o <<"..">>,
      parent(paths.config_dirs[1]) \o <<"..">>,
      parent(paths.config_dirs[1]),
      home_dir \o <<"Documents">>,
      home_dir \o <<"Documents", "passwd">>,
      <<"etc", "passwd">>,
      <<"data">> }

InitRemove ==
    /\ system \in Systems \ {"FreeBSD"}
    /\ InitialFilesystem(fs, system)
    /\ clock = RunClock
    /\ pc = "call"
    /\ idx = 0
    /\ pre = fs
    /\ cand = <<>>
    /\ bases = <<>>
    /\ outcome = "none"
    /\ log = <<>>
    /\ created = {}
    /\ trial = NoTrial
    /\ choice = <<>>

\* one call of remove_path, lines 59-86
Call(p, allowed_bases) ==
    /\ \E r \in remove_path(fs, p, home_dir, allowed_bases, system) :
          /\ fs' = r.fs
          /\ outcome' = r.outcome
    /\ pre' = fs
    /\ cand' = p
    /\ bases' = allowed_bases
    /\ log' = Append(log, p)
    /\ idx' = idx + 1
    /\ UNCHANGED <<system, pc, created, trial, clock, choice>>

RemoveCall ==
    /\ pc = "call"
    /\ idx = 0
    /\ \E paths \in {os_paths} : \E p \in RemoveCandidates(paths) :
          Call(p, paths.allowed_bases)

RemoveAgain ==
    /\ pc = "call"
    /\ idx > 0
    /\ idx < MaxCalls
    /\ Call(cand, bases)

NextRemove == RemoveCall \/ RemoveAgain

SpecRemove == InitRemove /\ [][NextRemove]_vars

(***************************************************************************)
(* is_safe_to_delete called on its own.                                     *)
(***************************************************************************)
\* The component names of the candidates: the home directory's, "..", a name
\* outside every table, the first component of an allowed base and a name
\* that only begins like it or follows it.
GateNames(sys) ==
    {"home", "u", "..", "etc"} \cup
    (IF sys = "Windows" THEN {"AppData", "Roaming"}
     ELSE IF sys = "Darwin" THEN {"Library", "Caches"}
     ELSE {".config", ".config-old"})

RECURSIVE PathsUpTo(_, _)
PathsUpTo(names, n) ==
    IF n = 0 THEN {<<>>}
    ELSE LET shorter == PathsUpTo(names, n - 1)
         IN shorter \cup {Append(q, c) : q \in shorter, c \in names}

InitGate ==
    /\ system \in Systems \ {"FreeBSD"}
    /\ cand \in PathsUpTo(GateNames(system), MaxCandLen)
    /\ bases \in {EXPECTED_BASES[system], <<>>}
    /\ pc = "gate"
    /\ outcome = "none"
    /\ fs = Skeleton
    /\ pre = Skeleton
    /\ clock = RunClock
    /\ idx = 0
    /\ log = <<>>
    /\ created = {}
    /\ trial = NoTrial
    /\ choice = <<>>

\* one call of is_safe_to_delete, lines 34-57
Gate ==
    /\ pc = "gate"
    /\ outcome' = IF is_safe_to_delete(cand, home_dir, bases, system) THEN "safe" ELSE "unsafe"
    /\ pc' = "returned"
    /\ UNCHANGED <<system, idx, fs, pre, cand, bases, log, created, trial, clock, choice>>

SpecGate == InitGate /\ [][Gate]_vars

(***************************************************************************)
(* create_new_trial_info called on its own, at any time and in any zone.    *)
(***************************************************************************)
InitTrial ==
    /\ system = "Linux"
    /\ clock \in Clocks
    /\ fs \in Restrictions(Populate({os_paths.config_dirs[1]}, [p \in {os_paths.config_dirs[1]} |-> Dir]))
    /\ pc = "trial"
    /\ idx = 0
    /\ pre = fs
    /\ cand = <<>>
    /\ bases = <<>>
    /\ outcome = "none"
    /\ log = <<>>
    /\ created = {}
    /\ trial = NoTrial
    /\ choice = <<>>

SpecTrial == InitTrial /\ [][CreateTrialInfo]_vars

(***************************************************************************)
(* Properties.                                                              *)
(***************************************************************************)
\* p lies beneath root: root is one of p.parents
under(p, root) == is_relative_to(p, root) /\ p # root

\* os.path.normpath: the location a path names once ".." is collapsed
RECURSIVE normpath_from(_, _)
normpath_from(acc, rest) ==
    IF rest = <<>> THEN acc
    ELSE IF Head(rest) = ".." THEN normpath_from(parent(acc), Tail(rest))
    ELSE normpath_from(Append(acc, Head(rest)), Tail(rest))

normpath(p) == normpath_from(<<>>, p)

relative == relative_to(cand, home_dir)

\* the string form of the relative path begins with an allowed prefix
begins_with_allowed_prefix ==
    \E i \in DOMAIN bases : startswith(str(relative, system), bases[i])

\* the messages that report a failed deletion
Failures == {"already_gone", "permission_denied", "os_error", "unexpected_error"}

\* the state of the candidate before the last remove_path call
before == os_stat(pre, cand, TRUE)
entry_before == os_stat(pre, cand, FALSE)
called == pc = "call" /\ idx > 0
passes_gate == is_safe_to_delete(cand, home_dir, bases, system)

\* C1: the gate answers false for every candidate that does not lie under
\* the trust root (the trust root is none of its ancestors), whatever the
\* allowed prefixes.
C1_NotUnderRootIsUnsafe ==
    (pc = "returned" /\ ~under(cand, home_dir)) => outcome = "unsafe"

\* C2: the gate answers false for every candidate written as the trust root
\* followed by components with ".." whose normalized location is outside the
\* trust root, also when the components before the ".." begin with an
\* allowed prefix.
C2_EscapeIsUnsafe ==
    (/\ pc = "returned"
     /\ is_relative_to(cand, home_dir)
     /\ \E i \in DOMAIN relative : relative[i] = ".."
     /\ ~is_relative_to(normpath(cand), home_dir))
    => outcome = "unsafe"

\* C3: containment is strict: for the candidate equal to the trust root the
\* gate answers false, and remove_path leaves the home directory in place.
C3_HomeIsNeverDeleted ==
    (called /\ cand = home_dir)
    => (outcome = "unsafe" /\ fs = pre /\ home_dir \in DOMAIN fs)

\* C4: for a candidate beneath the trust root the gate answers true exactly
\* when the string form of its relative path begins with an allowed prefix
\* or the relative path has a single component.
C4_GateOnDescendants ==
    (pc = "returned" /\ under(cand, home_dir))
    => (outcome = "safe" <=> (begins_with_allowed_prefix \/ Len(relative) = 1))

\* C4's case: a nested candidate accepted because its string form begins
\* with an allowed prefix that is no whole component of it.
C4_Witness ==
    /\ pc = "returned"
    /\ under(cand, home_dir)
    /\ Len(relative) > 1
    /\ relative[1] = ".config-old"
    /\ outcome = "safe"

\* C5: a call on a candidate that does not exist, or that exists and is
\* rejected by the gate, returns silently (absent, unsafe) and leaves the
\* filesystem as it was; so does a repeated call on a deleted path.
C5_SkippedMeansUntouched ==
    called =>
        /\ before.err \in {"ENOENT", "ENOTDIR"} => (outcome = "absent" /\ fs = pre)
        /\ (before.err = "ok" /\ ~passes_gate) => (outcome = "unsafe" /\ fs = pre)
        /\ outcome \in {"absent", "unsafe"} => fs = pre

\* C5's case: an existing file in an unexpected place of the home directory,
\* rejected and left where it is.
C5_Witness ==
    /\ called
    /\ cand = home_dir \o <<"Documents", "passwd">>
    /\ before.err = "ok"
    /\ outcome = "unsafe"
    /\ cand \in DOMAIN fs

\* C6: a call on an existing directory that passes the gate either removes
\* the directory with everything beneath it and reports the deletion, or
\* reports a failure; a tree deleted in part is never reported as deleted.
C6_WholeTreeOrFailure ==
    (/\ called
     /\ entry_before.err = "ok"
     /\ entry_before.node.kind \in DirKinds
     /\ passes_gate)
    => \/ /\ outcome = "deleted_directory"
          /\ before.at \notin DOMAIN fs
          /\ subtree(fs, before.at) = {}
          /\ exists(fs, cand) = {"False"}
       \/ outcome \in Failures

\* C6's case: a tree that lost some of its entries, reported as a failure.
C6_Witness ==
    /\ called
    /\ entry_before.err = "ok"
    /\ entry_before.node.kind \in DirKinds
    /\ passes_gate
    /\ outcome = "permission_denied"
    /\ fs # pre
    /\ before.at \in DOMAIN fs

\* C7: a call on a regular file or a symbolic link that passes the gate
\* removes that directory entry and nothing else (unless it reports a
\* failure), whether the link's target is a file, a directory or missing.
C7_FileOrLinkIsUnlinked ==
    (/\ called
     /\ entry_before.err = "ok"
     /\ entry_before.node.kind \in {"file", "link"}
     /\ passes_gate
     /\ outcome \notin Failures)
    => fs = without(pre, {entry_before.at})

\* C8: no error of one candidate leaves remove_path: a confirmed run that
\* has left the deletion phase has called remove_path on every candidate of
\* the config, cache and state tables, once each and in table order.
C8_EveryCandidateProcessed ==
    (choice = <<"y">> /\ pc \in {"machine_id", "trial", "done", "crashed"})
    => log = deletion_table(os_paths)

\* C9: a trial-info record that was written ends exactly 90 days of
\* milliseconds (7,776,000,000) after it starts and is marked unused.
C9_TrialLastsNinetyDays ==
    (pc = "done" /\ trial.written = "created")
    => /\ trial.trialEndTimestamp.day = trial.trialStartTimestamp.day + TrialDays
       /\ trial.trialEndTimestamp.ms = trial.trialStartTimestamp.ms
       /\ trial.hasUsedTrial = FALSE

\* C10: confirmation, then deletions, then creations: nothing is deleted or
\* created unless the OS is supported and the answer was 'y'; a file is
\* written only after every remove_path call of the tables has been made;
\* and a file the run created is still there.
C10_ConfirmDeleteCreate ==
    /\ (fs # pre \/ log # <<>> \/ created # {})
          => (os_paths.supported /\ choice = <<"y">>)
    /\ pc \in {"start", "confirm", "cancelled", "unsupported"}
          => (fs = pre /\ log = <<>> /\ created = {})
    /\ created # {}
          => /\ log = deletion_table(os_paths)
             /\ pc \in {"trial", "done", "crashed"}
             /\ \A p \in created : is_file(fs, p)

\* C10's case: a run that deleted something and then wrote both files.
C10_Witness ==
    /\ pc = "done"
    /\ Cardinality(created) = 2
    /\ \E i \in DOMAIN log : log[i] \notin DOMAIN fs /\ i < Len(log)
    /\ log = deletion_table(os_paths)
====
